---- MODULE Spec2Model ----
(***************************************************************************)
(* Model of the Enhanced Windows-Use agent:                                *)
(*   - LoopDetector            (windows_use/agent/enhanced_service.py)     *)
(*   - EnhancedAgent graph     (reason / action / answer / invoke)         *)
(*   - InteractionTracker and enhanced_click_tool                          *)
(*                             (windows_use/agent/tools/enhanced_service.py)*)
(***************************************************************************)
EXTENDS Integers, Sequences, FiniteSets, TLC

(***************************************************************************)
(* Bounds of the model.                                                    *)
(***************************************************************************)
\* number of distinct click locations the oracle may name
NumLocs == 2
\* number of distinct parameter values fed to a stand-alone LoopDetector
LDParams == 2
\* largest max_steps of the short-running configurations
MaxStepsBound == 5
\* largest consecutive_failures limit an agent is configured with
MaxFailureLimit == 2
\* number of invoke calls made on one agent
MaxInvocations == 2
\* oracle calls made on one short-running agent, over all its invocations
MaxOracleCalls == 4
\* max_steps of the one long-running configuration
LongRunSteps == 24
\* record_attempt calls made on a stand-alone InteractionTracker
MaxRecords == 3
\* add_action calls made on a LoopDetector fed with many different actions
MaxAdds == 5

(***************************************************************************)
(* Program constants.                                                      *)
(***************************************************************************)
\* LoopDetector.__init__ defaults
max_history == 10
pattern_threshold == 3

Locs == 1..NumLocs

\* An action proposed by the oracle: agent_data.action.{name, params}.  The
\* params dict is represented by the index of its value; for the Click Tool
\* it is the location.
Action(name, params) == [name |-> name, params |-> params]

\* agent_data = None
NoAction == Action("None", 0)

(***************************************************************************)
(* LoopDetector                                                            *)
(***************************************************************************)
\* ActionPattern without its timestamp (comparisons ignore it)
ActionPattern(name, params) == [action_name |-> name, params |-> params]

\* a plausible slip: comparing the names only
actions_identical_name_only(action1, action2) ==
    action1.action_name = action2.action_name

_actions_identical(action1, action2) ==
    /\ action1.action_name = action2.action_name
    /\ action1.params = action2.params

_detect_alternating_pattern(actions) ==
    IF Len(actions) < 4
    THEN FALSE
    ELSE /\ _actions_identical(actions[1], actions[3])
         /\ _actions_identical(actions[2], actions[4])
         /\ ~ _actions_identical(actions[1], actions[2])

\* a plausible slip: the newest entry is dropped instead of the oldest
deque_append_evict_newest(history, pattern) ==
    IF Len(history) >= max_history
    THEN SubSeq(history, 1, Len(history) - 1) \o <<pattern>>
    ELSE Append(history, pattern)

\* deque(maxlen=max_history).append
deque_append(history, pattern) ==
    IF Len(history) >= max_history
    THEN Tail(history) \o <<pattern>>
    ELSE Append(history, pattern)

\* list(history)[-n:]
LastN(s, n) == IF Len(s) <= n THEN s ELSE SubSeq(s, Len(s) - n + 1, Len(s))

\* a plausible slip: a repeat is flagged once, when it reaches the threshold
add_action_flag_once(history, name, params) ==
    LET h1 == deque_append(history, ActionPattern(name, params))
        recent_actions == LastN(h1, pattern_threshold)
        longer == LastN(h1, pattern_threshold + 1)
        rule == IF /\ Len(h1) >= pattern_threshold
                   /\ \A i \in 1..Len(recent_actions) :
                         _actions_identical(recent_actions[1], recent_actions[i])
                   /\ ~ /\ Len(longer) > pattern_threshold
                        /\ _actions_identical(longer[1], longer[2])
                THEN "exact"
                ELSE "none"
    IN  [history |-> h1, flagged |-> rule # "none", rule |-> rule,
         evicted |-> Len(history) >= max_history]

\* a plausible slip: a flagged loop starts the history afresh
add_action_clear_on_flag(history, name, params) ==
    LET h1 == deque_append(history, ActionPattern(name, params))
        recent_actions == LastN(h1, pattern_threshold)
        rule == IF /\ Len(h1) >= pattern_threshold
                   /\ \A i \in 1..Len(recent_actions) :
                         _actions_identical(recent_actions[1], recent_actions[i])
                THEN "exact"
                ELSE "none"
    IN  [history |-> IF rule # "none" THEN <<>> ELSE h1,
         flagged |-> rule # "none", rule |-> rule,
         evicted |-> Len(history) >= max_history]

\* add_action: the new history, the returned flag and the rule that raised it
add_action(history, name, params) ==
    LET h1 == deque_append(history, ActionPattern(name, params))
        recent_actions == LastN(h1, pattern_threshold)
        rule == IF Len(h1) >= pattern_threshold
                THEN IF \A i \in 1..Len(recent_actions) :
                            _actions_identical(recent_actions[1], recent_actions[i])
                     THEN "exact"
                     ELSE IF /\ Len(recent_actions) >= 4
                             /\ _detect_alternating_pattern(recent_actions)
                          THEN "alternating"
                          ELSE "none"
                ELSE "none"
    IN  [history |-> h1, flagged |-> rule # "none", rule |-> rule,
         evicted |-> Len(history) >= max_history]

(***************************************************************************)
(* InteractionStrategy, ActionResult, InteractionTracker                   *)
(***************************************************************************)
DIRECT_CLICK == "direct_click"
KEYBOARD_NAV == "keyboard_nav"
TEXT_BASED == "text_based"
ELEMENT_SEARCH == "element_search"
ALTERNATIVE_COORDINATES == "alternative_coordinates"

\* list(InteractionStrategy), in declaration order
all_strategies ==
    <<DIRECT_CLICK, KEYBOARD_NAV, TEXT_BASED, ELEMENT_SEARCH, ALTERNATIVE_COORDINATES>>

NoStrategy == "none"

Range(s) == {s[i] : i \in 1..Len(s)}

\* thresholds of should_try_alternative
location_attempts_threshold == 2
tracker_failures_threshold == 3

\* InteractionTracker(): the dicts are total functions holding the .get defaults.
\* Its action_history list (trimmed to the last 10 records) is read by nothing
\* and is left out.
InteractionTracker ==
    [location_attempts |-> [l \in Locs |-> 0],
     failed_strategies |-> [l \in Locs |-> <<>>],
     consecutive_failures |-> 0,
     last_successful_strategy |-> NoStrategy]

\* a plausible slip: only the failed attempts are counted
record_attempt_failures_only(t, location, strategy, success) ==
    IF ~ success
    THEN [t EXCEPT !.location_attempts[location] = @ + 1,
                   !.failed_strategies[location] = Append(@, strategy),
                   !.consecutive_failures = @ + 1]
    ELSE [t EXCEPT !.consecutive_failures = 0,
                   !.last_successful_strategy = strategy]

\* a plausible slip: a success does not reset the failure count
record_attempt_no_reset(t, location, strategy, success) ==
    LET t1 == [t EXCEPT !.location_attempts[location] = @ + 1]
    IN  IF ~ success
        THEN [t1 EXCEPT !.failed_strategies[location] = Append(@, strategy),
                        !.consecutive_failures = @ + 1]
        ELSE [t1 EXCEPT !.last_successful_strategy = strategy]

record_attempt(t, location, strategy, success) ==
    LET t1 == [t EXCEPT !.location_attempts[location] = @ + 1]
    IN  IF ~ success
        THEN [t1 EXCEPT !.failed_strategies[location] = Append(@, strategy),
                        !.consecutive_failures = @ + 1]
        ELSE [t1 EXCEPT !.consecutive_failures = 0,
                        !.last_successful_strategy = strategy]

\* a plausible slip: the global failure count is not consulted
should_try_alternative_location_only(t, location) ==
    t.location_attempts[location] >= location_attempts_threshold

\* a plausible slip: the attempts at the location are not consulted
should_try_alternative_failures_only(t, location) ==
    t.consecutive_failures >= tracker_failures_threshold

should_try_alternative(t, location) ==
    \/ t.location_attempts[location] >= location_attempts_threshold
    \/ t.consecutive_failures >= tracker_failures_threshold

\* a plausible slip: failures at every location are excluded
get_available_strategies_any_location(t, location) ==
    SelectSeq(all_strategies,
              LAMBDA s : \A l \in Locs : s \notin Range(t.failed_strategies[l]))

\* a plausible slip: the failures recorded at the location are not excluded
get_available_strategies_all(t, location) == all_strategies

get_available_strategies(t, location) ==
    LET failed == t.failed_strategies[location]
    IN  SelectSeq(all_strategies, LAMBDA s : s \notin Range(failed))

\* a call made on a tracker by its user: the method, its arguments and what
\* it returned
TrackerCall(op, location, strategy, success, returned, strategies) ==
    [op |-> op, location |-> location, strategy |-> strategy,
     success |-> success, returned |-> returned, strategies |-> strategies]
NoCall == TrackerCall("none", 0, NoStrategy, FALSE, FALSE, <<>>)

(***************************************************************************)
(* AdaptiveUIHandler: what one strategy does on the UI surface is an input *)
(*   "ok"    the interaction ran and validate_click_result returned True   *)
(*   "fail"  the interaction ran and was not validated                     *)
(*   "raise" the interaction raised; the handler's except turns it into a  *)
(*           failed ActionResult                                           *)
(***************************************************************************)
UIOutcome == {"ok", "fail", "raise"}

ActionResult(success, message, strategy_used) ==
    [success |-> success, message |-> message, strategy_used |-> strategy_used]

\* a plausible slip: the click is reported without being validated
click_with_direct_strategy_unvalidated(o) ==
    IF o = "raise"
    THEN ActionResult(FALSE, "direct_click_failed", DIRECT_CLICK)
    ELSE ActionResult(TRUE, "clicked", DIRECT_CLICK)

click_with_direct_strategy(o) ==
    IF o = "raise"
    THEN ActionResult(FALSE, "direct_click_failed", DIRECT_CLICK)
    ELSE ActionResult(o = "ok", "clicked", DIRECT_CLICK)

click_with_keyboard_nav(o) ==
    IF o = "raise"
    THEN ActionResult(FALSE, "keyboard_navigation_failed", KEYBOARD_NAV)
    ELSE ActionResult(o = "ok", "keyboard_navigation", KEYBOARD_NAV)

\* a plausible slip: the except clause reports a success
click_with_element_search_except_success(o) ==
    IF o = "raise"
    THEN ActionResult(TRUE, "element_search_failed", ELEMENT_SEARCH)
    ELSE IF o = "ok"
         THEN ActionResult(TRUE, "element_search_successful", ELEMENT_SEARCH)
         ELSE ActionResult(FALSE, "no_clickable_elements", ELEMENT_SEARCH)

click_with_element_search(o) ==
    IF o = "raise"
    THEN ActionResult(FALSE, "element_search_failed", ELEMENT_SEARCH)
    ELSE IF o = "ok"
         THEN ActionResult(TRUE, "element_search_successful", ELEMENT_SEARCH)
         ELSE ActionResult(FALSE, "no_clickable_elements", ELEMENT_SEARCH)

click_with_alternative_coordinates(o) ==
    IF o = "raise"
    THEN ActionResult(FALSE, "alternative_coordinates_failed", ALTERNATIVE_COORDINATES)
    ELSE IF o = "ok"
         THEN ActionResult(TRUE, "alternative_coordinates_successful", ALTERNATIVE_COORDINATES)
         ELSE ActionResult(FALSE, "all_alternative_coordinates_failed", ALTERNATIVE_COORDINATES)

(***************************************************************************)
(* enhanced_click_tool                                                     *)
(***************************************************************************)
\* a plausible slip: the direct click is tried first
strategy_order_direct_first ==
    <<DIRECT_CLICK, ELEMENT_SEARCH, KEYBOARD_NAV, ALTERNATIVE_COORDINATES>>

\* a plausible slip: the text-based strategy takes part in the order
strategy_order_with_text ==
    <<ELEMENT_SEARCH, KEYBOARD_NAV, TEXT_BASED, ALTERNATIVE_COORDINATES, DIRECT_CLICK>>

\* a plausible slip: the last resort is listed twice
strategy_order_repeated ==
    <<ELEMENT_SEARCH, KEYBOARD_NAV, ALTERNATIVE_COORDINATES, DIRECT_CLICK, DIRECT_CLICK>>

strategy_order ==
    <<ELEMENT_SEARCH, KEYBOARD_NAV, ALTERNATIVE_COORDINATES, DIRECT_CLICK>>

\* the strategies a click execution can attempt, and the UI's answer to each
OrderedStrategies == Range(strategy_order)
UIBehaviour == [OrderedStrategies -> UIOutcome]

\* text returned by a tool: its kind and the strategy it names
Msg(kind, strategy) == [kind |-> kind, strategy |-> strategy]
NoneMsg == Msg("None", NoStrategy)
EmptyMsg == Msg("", NoStrategy)

run_strategy(strategy, ui) ==
    IF strategy = DIRECT_CLICK THEN click_with_direct_strategy(ui[strategy])
    ELSE IF strategy = KEYBOARD_NAV THEN click_with_keyboard_nav(ui[strategy])
    ELSE IF strategy = ELEMENT_SEARCH THEN click_with_element_search(ui[strategy])
    ELSE click_with_alternative_coordinates(ui[strategy])

\* one record_attempt call as made by the click tool
Recorded(strategy, success) == [strategy |-> strategy, success |-> success]

\* the for loop over strategy_order, from position i on.  attempted lists the
\* strategies run so far in this execution and recorded the record_attempt
\* calls made for them, in order.
RECURSIVE try_strategies(_, _, _, _, _, _, _)
try_strategies(t, loc, available_strategies, ui, i, attempted, recorded) ==
    IF i > Len(strategy_order)
    THEN [tracker |-> t, success |-> FALSE, strategy |-> NoStrategy,
          attempted |-> attempted, recorded |-> recorded]
    ELSE LET strategy == strategy_order[i]
         IN  IF strategy \in Range(available_strategies)
             THEN LET result == run_strategy(strategy, ui)
                      t1 == record_attempt(t, loc, strategy, result.success)
                      attempted1 == Append(attempted, strategy)
                      recorded1 == Append(recorded, Recorded(strategy, result.success))
                  IN  IF result.success
                      THEN [tracker |-> t1, success |-> TRUE, strategy |-> strategy,
                            attempted |-> attempted1, recorded |-> recorded1]
                      ELSE try_strategies(t1, loc, available_strategies, ui, i + 1,
                                          attempted1, recorded1)
             ELSE try_strategies(t, loc, available_strategies, ui, i + 1,
                                 attempted, recorded)

\* a plausible slip: the exhaustion is reported without being recorded
all_strategies_failed_unrecorded(t, loc) ==
    [tracker |-> t,
     message |-> Msg("all_strategies_exhausted", NoStrategy),
     recorded |-> <<>>]

\* the end of the multi-strategy path, no strategy having succeeded: one more
\* failure is recorded for the location and the exhaustion text is returned
all_strategies_failed(t, loc) ==
    [tracker |-> record_attempt(t, loc, DIRECT_CLICK, FALSE),
     message |-> Msg("all_strategies_exhausted", NoStrategy),
     recorded |-> <<Recorded(DIRECT_CLICK, FALSE)>>]

\* what the UI surface did in each of the attempted interactions
outcomes_of(attempted, ui) == [k \in 1..Len(attempted) |-> ui[attempted[k]]]

\* One execution of the Click Tool at loc on tracker t under UI behaviour ui.
\*   path       "multi" or "direct"
\*   available  the strategies handed to the loop (<<>> on the direct path)
\*   reset      the 'all strategies exhausted, resetting' branch was taken
\*   attempted  strategies run, in order;  outcomes: what the UI did in each
\*   recorded   the record_attempt calls made, in order;  records: their number
enhanced_click_tool(t, loc, ui) ==
    IF should_try_alternative(t, loc)
    THEN LET available0 == get_available_strategies(t, loc)
             reset == available0 = <<>>
             t0 == IF reset THEN [t EXCEPT !.failed_strategies[loc] = <<>>] ELSE t
             available_strategies == IF reset THEN <<DIRECT_CLICK>> ELSE available0
             r == try_strategies(t0, loc, available_strategies, ui, 1, <<>>, <<>>)
         IN  IF r.success
             THEN [tracker |-> r.tracker,
                   message |-> Msg("success_with", r.strategy),
                   path |-> "multi", available |-> available_strategies,
                   reset |-> reset, attempted |-> r.attempted,
                   outcomes |-> outcomes_of(r.attempted, ui),
                   recorded |-> r.recorded,
                   records |-> Len(r.recorded), loc |-> loc]
             ELSE LET e == all_strategies_failed(r.tracker, loc)
                  IN  [tracker |-> e.tracker,
                       message |-> e.message,
                       path |-> "multi", available |-> available_strategies,
                       reset |-> reset, attempted |-> r.attempted,
                       outcomes |-> outcomes_of(r.attempted, ui),
                       recorded |-> r.recorded \o e.recorded,
                       records |-> Len(r.recorded \o e.recorded), loc |-> loc]
    ELSE LET result == click_with_direct_strategy(ui[DIRECT_CLICK])
         IN  [tracker |-> record_attempt(t, loc, DIRECT_CLICK, result.success),
              message |-> IF result.success
                          THEN Msg(result.message, NoStrategy)
                          ELSE Msg("initial_click_failed", NoStrategy),
              path |-> "direct", available |-> <<>>,
              reset |-> FALSE, attempted |-> <<DIRECT_CLICK>>,
              outcomes |-> <<ui[DIRECT_CLICK]>>,
              recorded |-> <<Recorded(DIRECT_CLICK, result.success)>>,
              records |-> 1, loc |-> loc]

\* no click execution yet
NoClick ==
    [path |-> "none", available |-> <<>>, reset |-> FALSE, attempted |-> <<>>,
     outcomes |-> <<>>, recorded |-> <<>>,
     records |-> 0, loc |-> 0, message |-> NoneMsg]

(***************************************************************************)
(* Registry.execute and ToolResult (windows_use.agent.registry)            *)
(***************************************************************************)
ToolResult(is_success, content, error) ==
    [is_success |-> is_success, content |-> content, error |-> error]

\* no tool executed yet
NoToolResult == ToolResult(FALSE, NoneMsg, NoneMsg)

\* the tools of the model: the Click Tool, one other UI tool, the terminal tool
CLICK_TOOL == "Click Tool"
KEY_TOOL == "Key Tool"
DONE_TOOL == "Done Tool"

\* what a tool other than the Click Tool does: it returns, or it raises
ToolOutcome == {"ok", "err"}

\* Registry.execute(tool_name, desktop, **params): the tool's return value
\* becomes the content of a successful ToolResult, an exception raised by the
\* tool becomes the error of a failed one.  The Click Tool returns a text on
\* each of its paths; the Done Tool returns its answer.  behaviour is the UI
\* behaviour for the Click Tool and the tool outcome for the other tools.
registry_execute(tool_name, params, t, behaviour) ==
    IF tool_name = CLICK_TOOL
    THEN LET c == enhanced_click_tool(t, params, behaviour)
         IN  [tool_result |-> ToolResult(TRUE, c.message, NoneMsg),
              tracker |-> c.tracker,
              click |-> [path |-> c.path, available |-> c.available,
                         reset |-> c.reset, attempted |-> c.attempted,
                         outcomes |-> c.outcomes, recorded |-> c.recorded,
                         records |-> c.records, loc |-> c.loc,
                         message |-> c.message],
              raised |-> FALSE]
    ELSE IF tool_name = DONE_TOOL
    THEN [tool_result |-> ToolResult(TRUE, Msg("answer", NoStrategy), NoneMsg),
          tracker |-> t, click |-> NoClick, raised |-> FALSE]
    ELSE [tool_result |-> IF behaviour = "ok"
                          THEN ToolResult(TRUE, Msg("tool_content", NoStrategy), NoneMsg)
                          ELSE ToolResult(FALSE, NoneMsg, Msg("tool_error", NoStrategy)),
          tracker |-> t, click |-> NoClick, raised |-> FALSE]

\* With desktop=None every handler runs into the missing desktop: the direct
\* and keyboard strategies raise on desktop.get_element_under_cursor, the
\* alternative-coordinates probe swallows that in its inner except, and
\* validate_click_result returns False from its own except.
UIWithoutDesktop ==
    {u \in UIBehaviour : /\ u[DIRECT_CLICK] = "raise"
                         /\ u[KEYBOARD_NAV] = "raise"
                         /\ u[ELEMENT_SEARCH] \in {"fail", "raise"}
                         /\ u[ALTERNATIVE_COORDINATES] = "fail"}

(***************************************************************************)
(* EnhancedAgent                                                           *)
(***************************************************************************)
\* invoke: steps = 1, recursion_limit = max_steps + 20
initial_steps == 1
recursion_slack == 20

get_suggested_alternatives ==
    <<"Try a different click location nearby",
      "Use keyboard navigation (Tab, Enter, Arrow keys)",
      "Search for alternative UI elements",
      "Use text-based input methods",
      "Wait for UI to stabilize before retrying",
      "Consider if the task approach needs to be changed">>

failure_limit_guidance ==
    <<"You must try a fundamentally different approach - consider keyboard navigation, alternative UI elements, or different coordinates.">>

\* previous_observation: the marker the text starts with, the tool text it
\* carries and the guidance it lists
Observation(marker, text, guidance) ==
    [marker |-> marker, text |-> text, guidance |-> guidance]
NoObservation == Observation("None", NoneMsg, <<>>)

\* AgentResult(content, error)
AgentResult(content, error) == [content |-> content, error |-> error]
NoResult == AgentResult(NoneMsg, "no result")

\* a plausible slip: the budget test admits steps = max_steps
main_controller_off_by_one(st) ==
    IF st.steps <= st.max_steps /\ st.agent_data.name # DONE_TOOL
    THEN "action"
    ELSE "answer"

\* a plausible slip: the terminal tool is not told apart
main_controller_no_done(st) ==
    IF st.steps < st.max_steps THEN "action" ELSE "answer"

\* main_controller: the node that follows 'reason'
main_controller(st) ==
    IF st.steps < st.max_steps /\ st.agent_data.name # DONE_TOOL
    THEN "action"
    ELSE "answer"

recursion_limit(st) == st.max_steps + recursion_slack

VARIABLES
    pc,                 \* graph position: "idle", "reason", "action", "answer", "end"
    state,              \* AgentState of the running invocation
    agent,              \* EnhancedAgent fields: max_steps, consecutive_failures,
                        \*   loop_detection, current_consecutive_failures
    action_history,     \* LoopDetector.action_history
    interaction_tracker,\* the module-level InteractionTracker
    iterations,         \* graph nodes run in this invocation
    response,           \* the AgentResult returned by the last invoke
    loop_detected,      \* the value returned by the last add_action
    loop_rule,          \* the rule that made the last add_action return True
    evicted,            \* the last add_action dropped the oldest history entry
    cycle,              \* the node that ran last, and what it did
    last_click,         \* the last Click Tool execution
    invocations,        \* invoke calls so far
    dispatches,         \* registry.execute calls so far
    oracle_calls,       \* llm.invoke calls so far, over all invocations
    reason_cycles,      \* 'reason' nodes completed in this invocation
    action_cycles,      \* 'action' nodes completed in this invocation
    last_tool_result,   \* the ToolResult held by the last action or answer
    tracker_call,       \* the last call made on a stand-alone InteractionTracker
    other_agent         \* a second EnhancedAgent of the process, while it does not run

vars == <<pc, state, agent, action_history, interaction_tracker, iterations,
          response, loop_detected, loop_rule, evicted, cycle, last_click, invocations,
          dispatches, oracle_calls, reason_cycles, action_cycles,
          last_tool_result, tracker_call, other_agent>>

\* node: the node that ran;  flagged: it was an action cycle that flagged a
\* loop;  tool: the tool it executed through the registry, if any
Cycle(node, flagged, tool) ==
    [node |-> node, flagged |-> flagged, tool |-> tool]
NoTool == "none"

AgentState(steps, max_steps) ==
    [steps |-> steps, max_steps |-> max_steps, output |-> EmptyMsg, error |-> "",
     agent_data |-> NoAction, previous_observation |-> NoObservation]

\* what an agent instance owns: its fields, its LoopDetector and the graph
\* run of its invocation
AgentContext(pc_, state_, agent_, action_history_, iterations_, response_, loop_detected_, loop_rule_, evicted_, cycle_, invocations_, reason_cycles_, action_cycles_, last_tool_result_) ==
    [pc |-> pc_, state |-> state_, agent |-> agent_,
     action_history |-> action_history_, iterations |-> iterations_,
     response |-> response_, loop_detected |-> loop_detected_,
     loop_rule |-> loop_rule_, evicted |-> evicted_, cycle |-> cycle_,
     invocations |-> invocations_, reason_cycles |-> reason_cycles_,
     action_cycles |-> action_cycles_, last_tool_result |-> last_tool_result_]

\* a second agent as EnhancedAgent.__init__ leaves it
ConstructedAgent(name, fields) ==
    [name |-> name,
     context |-> AgentContext("idle", AgentState(0, 0), fields, <<>>, 0, NoResult,
                              FALSE, "none", FALSE, Cycle("none", FALSE, NoTool),
                              0, 0, 0, NoToolResult)]

\* the process holds one agent only
NoOtherAgent ==
    ConstructedAgent("none", [max_steps |-> 0, consecutive_failures |-> 1,
                              loop_detection |-> FALSE,
                              current_consecutive_failures |-> 0])

\* EnhancedAgent.__init__ with max_steps drawn from step_choices, in a process
\* whose module-level tracker is new
InitAgent(step_choices) ==
    /\ pc = "idle"
    /\ state = AgentState(0, 0)
    /\ agent \in [max_steps : step_choices,
                  consecutive_failures : 1..MaxFailureLimit,
                  loop_detection : BOOLEAN,
                  current_consecutive_failures : {0}]
    /\ action_history = <<>>
    /\ interaction_tracker = InteractionTracker
    /\ iterations = 0
    /\ response = NoResult
    /\ loop_detected = FALSE
    /\ loop_rule = "none"
    /\ evicted = FALSE
    /\ cycle = Cycle("none", FALSE, NoTool)
    /\ last_click = NoClick
    /\ invocations = 0
    /\ dispatches = 0
    /\ oracle_calls = 0
    /\ reason_cycles = 0
    /\ action_cycles = 0
    /\ last_tool_result = NoToolResult
    /\ tracker_call = NoCall

\* one agent in the process
InitWith(step_choices) ==
    /\ InitAgent(step_choices)
    /\ other_agent = NoOtherAgent

\* short-running agents, and one long-running configuration
Init == InitWith((1..MaxStepsBound) \cup {LongRunSteps})

long_running == agent.max_steps > MaxStepsBound

\* oracle calls an agent may make over all its invocations: a long-running
\* agent is invoked once
oracle_budget == IF long_running THEN agent.max_steps - 1 ELSE MaxOracleCalls

\* a plausible slip: every invocation starts with a failure count of zero
Invoke_reset_failures ==
    /\ pc \in {"idle", "end"}
    /\ invocations < MaxInvocations
    /\ oracle_calls + agent.max_steps <= oracle_budget + 1
    /\ pc' = "reason"
    /\ state' = AgentState(initial_steps, agent.max_steps)
    /\ iterations' = 0
    /\ invocations' = invocations + 1
    /\ reason_cycles' = 0
    /\ action_cycles' = 0
    /\ cycle' = Cycle("start", FALSE, NoTool)
    /\ agent' = [agent EXCEPT !.current_consecutive_failures = 0]
    /\ UNCHANGED <<action_history, interaction_tracker, response,
                   loop_detected, loop_rule, evicted, last_click, dispatches, oracle_calls,
                   last_tool_result, tracker_call, other_agent>>

\* a plausible slip: every invocation starts with a fresh detector and tracker
Invoke_fresh_components ==
    /\ pc \in {"idle", "end"}
    /\ invocations < MaxInvocations
    /\ oracle_calls + agent.max_steps <= oracle_budget + 1
    /\ pc' = "reason"
    /\ state' = AgentState(initial_steps, agent.max_steps)
    /\ iterations' = 0
    /\ invocations' = invocations + 1
    /\ reason_cycles' = 0
    /\ action_cycles' = 0
    /\ cycle' = Cycle("start", FALSE, NoTool)
    /\ action_history' = <<>>
    /\ interaction_tracker' = InteractionTracker
    /\ UNCHANGED <<agent, response,
                   loop_detected, loop_rule, evicted, last_click, dispatches, oracle_calls,
                   last_tool_result, tracker_call, other_agent>>

\* invoke(query) up to graph.invoke: START -> reason.  A run is started only
\* when the oracle-call bound leaves room for all its reasoning cycles.
Invoke ==
    /\ pc \in {"idle", "end"}
    /\ invocations < MaxInvocations
    /\ oracle_calls + agent.max_steps <= oracle_budget + 1
    /\ pc' = "reason"
    /\ state' = AgentState(initial_steps, agent.max_steps)
    /\ iterations' = 0
    /\ invocations' = invocations + 1
    /\ reason_cycles' = 0
    /\ action_cycles' = 0
    /\ cycle' = Cycle("start", FALSE, NoTool)
    /\ UNCHANGED <<agent, action_history, interaction_tracker, response,
                   loop_detected, loop_rule, evicted, last_click, dispatches, oracle_calls,
                   last_tool_result, tracker_call, other_agent>>

\* a plausible slip: steps is not advanced
reason_update_no_increment(st, a) == [st EXCEPT !.agent_data = a]

\* the state returned by reason
reason_update(st, a) == [st EXCEPT !.agent_data = a, !.steps = @ + 1]

\* reason, with the oracle's parsed answer a, then main_controller
Reason(a) ==
    /\ pc = "reason"
    /\ iterations < recursion_limit(state)
    /\ \E st \in {reason_update(state, a)} :
           /\ state' = st
           /\ pc' = main_controller(st)
    /\ iterations' = iterations + 1
    /\ oracle_calls' = oracle_calls + 1
    /\ reason_cycles' = reason_cycles + 1
    /\ cycle' = Cycle("reason", FALSE, NoTool)
    /\ UNCHANGED <<agent, action_history, interaction_tracker, response,
                   loop_detected, loop_rule, evicted, last_click, invocations, dispatches,
                   action_cycles, last_tool_result, tracker_call, other_agent>>

\* a plausible slip: the limit must be exceeded, not reached
enhanced_observation_limit_exceeded(tool_result, failures, limit) ==
    IF failures > limit
    THEN Observation("FAILURE LIMIT REACHED",
                     IF ~ tool_result.is_success THEN tool_result.error
                                                 ELSE tool_result.content,
                     failure_limit_guidance)
    ELSE Observation("",
                     IF tool_result.is_success THEN tool_result.content
                                               ELSE tool_result.error,
                     <<>>)

\* the observation built by action from the tool result and the failure count
enhanced_observation(tool_result, failures, limit) ==
    IF failures >= limit
    THEN Observation("FAILURE LIMIT REACHED",
                     IF ~ tool_result.is_success THEN tool_result.error
                                                 ELSE tool_result.content,
                     failure_limit_guidance)
    ELSE Observation("",
                     IF tool_result.is_success THEN tool_result.content
                                               ELSE tool_result.error,
                     <<>>)

\* a plausible slip: a success does not reset the count
count_failures_no_reset(failures, is_success) ==
    IF ~ is_success THEN failures + 1 ELSE failures

\* current_consecutive_failures after a dispatch
count_failures(failures, is_success) ==
    IF ~ is_success THEN failures + 1 ELSE 0

\* self.loop_detector.add_action(name, params) as called by action
action_loop_check ==
    add_action(action_history, state.agent_data.name, state.agent_data.params)

\* a plausible slip: the detector's answer is not acted upon
loop_flagged_ignored == FALSE

loop_flagged == agent.loop_detection /\ action_loop_check.flagged

\* action, a loop being flagged: nothing is executed
ActionLoopDetected ==
    /\ pc = "action"
    /\ iterations < recursion_limit(state)
    /\ loop_flagged
    /\ \E ld \in {action_loop_check} :
           /\ action_history' = ld.history
           /\ loop_detected' = TRUE
           /\ loop_rule' = ld.rule
           /\ evicted' = ld.evicted
    /\ state' = [state EXCEPT
            !.agent_data = NoAction,
            !.previous_observation =
                Observation("Infinite loop detected",
                            Msg("tried_repeatedly", NoStrategy),
                            get_suggested_alternatives)]
    /\ cycle' = Cycle("action", TRUE, NoTool)
    /\ pc' = "reason"
    /\ iterations' = iterations + 1
    /\ action_cycles' = action_cycles + 1
    /\ UNCHANGED <<agent, interaction_tracker, last_click, response, invocations,
                   dispatches, oracle_calls, reason_cycles, last_tool_result,
                   tracker_call, other_agent>>

\* action, no loop flagged: the tool is executed through the registry
ActionDispatch(behaviour) ==
    /\ pc = "action"
    /\ iterations < recursion_limit(state)
    /\ ~ loop_flagged
    /\ IF agent.loop_detection
       THEN /\ action_history' = action_loop_check.history
            /\ loop_detected' = FALSE
            /\ loop_rule' = "none"
            /\ evicted' = action_loop_check.evicted
       ELSE UNCHANGED <<action_history, loop_detected, loop_rule, evicted>>
    /\ \E r \in {registry_execute(state.agent_data.name, state.agent_data.params,
                                  interaction_tracker, behaviour)} :
       \E failures \in {IF r.raised
                        THEN agent.current_consecutive_failures + 1
                        ELSE count_failures(agent.current_consecutive_failures,
                                            r.tool_result.is_success)} :
           /\ agent' = [agent EXCEPT !.current_consecutive_failures = failures]
           /\ last_tool_result' = IF r.raised
                                  THEN ToolResult(FALSE, EmptyMsg,
                                                  Msg("tool_execution_failed", NoStrategy))
                                  ELSE r.tool_result
           /\ interaction_tracker' = r.tracker
           /\ last_click' = IF state.agent_data.name = CLICK_TOOL
                            THEN r.click ELSE last_click
           /\ state' = [state EXCEPT
                   !.agent_data = NoAction,
                   !.previous_observation =
                       IF r.raised
                       THEN Observation("Tool execution error",
                                        Msg("exception", NoStrategy),
                                        <<"Try alternative approaches.">>)
                       ELSE enhanced_observation(r.tool_result, failures,
                                                 agent.consecutive_failures)]
    /\ cycle' = Cycle("action", FALSE, state.agent_data.name)
    /\ dispatches' = dispatches + 1
    /\ pc' = "reason"
    /\ iterations' = iterations + 1
    /\ action_cycles' = action_cycles + 1
    /\ UNCHANGED <<response, invocations, oracle_calls, reason_cycles,
                   tracker_call, other_agent>>

\* a plausible slip: only the Done Tool is executed by answer; any other
\* pending action is dropped and the output stays empty
Answer_pending_not_executed(behaviour) ==
    /\ pc = "answer"
    /\ iterations < recursion_limit(state)
    /\ IF state.agent_data.name = DONE_TOOL
       THEN \E r \in {registry_execute(state.agent_data.name, state.agent_data.params,
                                       interaction_tracker, behaviour)} :
                /\ state' = [state EXCEPT !.agent_data = NoAction,
                                          !.previous_observation = NoObservation,
                                          !.output = r.tool_result.content]
                /\ last_tool_result' = r.tool_result
                /\ response' = AgentResult(r.tool_result.content, state.error)
                /\ dispatches' = dispatches + 1
       ELSE /\ state' = [state EXCEPT !.agent_data = NoAction,
                                      !.previous_observation = NoObservation]
            /\ response' = AgentResult(state.output, state.error)
            /\ UNCHANGED <<last_tool_result, dispatches>>
    /\ pc' = "end"
    /\ iterations' = iterations + 1
    /\ cycle' = Cycle("answer", FALSE, state.agent_data.name)
    /\ UNCHANGED <<agent, action_history, interaction_tracker, last_click,
                   loop_detected, loop_rule, evicted, invocations,
                   oracle_calls, reason_cycles, action_cycles, tracker_call, other_agent>>

\* answer, then END and the return of invoke
Answer(behaviour) ==
    /\ pc = "answer"
    /\ iterations < recursion_limit(state)
    /\ \E r \in {registry_execute(state.agent_data.name, state.agent_data.params,
                                  interaction_tracker, behaviour)} :
       \E st \in {[state EXCEPT !.agent_data = NoAction,
                                !.previous_observation = NoObservation,
                                !.output = r.tool_result.content]} :
           /\ state' = st
           /\ last_tool_result' = r.tool_result
           /\ interaction_tracker' = r.tracker
           /\ last_click' = IF state.agent_data.name = CLICK_TOOL
                            THEN r.click ELSE last_click
           /\ response' = AgentResult(st.output, st.error)
    /\ pc' = "end"
    /\ iterations' = iterations + 1
    /\ cycle' = Cycle("answer", FALSE, state.agent_data.name)
    /\ dispatches' = dispatches + 1
    /\ UNCHANGED <<agent, action_history, loop_detected, loop_rule, evicted, invocations,
                   oracle_calls, reason_cycles, action_cycles, tracker_call, other_agent>>

\* a plausible slip: the fields of the state are returned
invoke_except_response_from_state == AgentResult(state.output, state.error)

\* the response invoke builds in its except clause for a GraphRecursionError
invoke_except_response ==
    AgentResult(NoneMsg, "Error: Task complexity exceeded limits. Recursion limit")

\* graph.invoke runs out of its recursion_limit: GraphRecursionError, caught
\* by invoke
RecursionLimit ==
    /\ pc \in {"reason", "action", "answer"}
    /\ iterations >= recursion_limit(state)
    /\ pc' = "end"
    /\ response' = invoke_except_response
    /\ cycle' = Cycle("recursion_limit", FALSE, NoTool)
    /\ UNCHANGED <<state, agent, action_history, interaction_tracker, iterations,
                   loop_detected, loop_rule, evicted, last_click, invocations, dispatches,
                   oracle_calls, reason_cycles, action_cycles, last_tool_result,
                   tracker_call, other_agent>>

\* the actions the oracle may propose; in the long-running configuration it
\* proposes no click
OracleActions ==
    IF long_running
    THEN {Action(KEY_TOOL, 0), Action(DONE_TOOL, 0)}
    ELSE {Action(CLICK_TOOL, l) : l \in Locs}
            \cup {Action(KEY_TOOL, 0), Action(DONE_TOOL, 0)}

ReasonStep == \E a \in OracleActions : Reason(a)

ActionClick ==
    /\ state.agent_data.name = CLICK_TOOL
    /\ \E ui \in UIBehaviour : ActionDispatch(ui)

ActionTool ==
    /\ state.agent_data.name # CLICK_TOOL
    /\ \E outcome \in ToolOutcome : ActionDispatch(outcome)

\* the pending action is a click: answer runs it with desktop=None
AnswerClick ==
    /\ state.agent_data.name = CLICK_TOOL
    /\ \E ui \in UIWithoutDesktop : Answer(ui)

AnswerTool ==
    /\ state.agent_data.name = KEY_TOOL
    /\ \E outcome \in ToolOutcome : Answer(outcome)

AnswerDone ==
    /\ state.agent_data.name = DONE_TOOL
    /\ Answer("ok")

Next ==
    \/ Invoke
    \/ ReasonStep
    \/ ActionLoopDetected
    \/ ActionClick
    \/ ActionTool
    \/ AnswerClick
    \/ AnswerTool
    \/ AnswerDone
    \/ RecursionLimit

Spec == Init /\ [][Next]_vars

\* graph.invoke runs the graph node after node on one thread: a node that can
\* run does run
Run ==
    \/ ReasonStep
    \/ ActionLoopDetected
    \/ ActionClick
    \/ ActionTool
    \/ AnswerClick
    \/ AnswerTool
    \/ AnswerDone
    \/ RecursionLimit

\* the failure limit only words the observation; termination is checked for
\* the smallest one
InitFair == Init /\ agent.consecutive_failures = 1

FairSpec == InitFair /\ [][Next]_vars /\ WF_vars(Run)

(***************************************************************************)
(* Two EnhancedAgent instances in one process, their runs interleaved node *)
(* by node.  The variables of the agent hold the instance that runs,       *)
(* other_agent the one that waits; the module-level tracker is one object. *)
(***************************************************************************)
\* a plausible slip: the tracker is not carried over to the agent that runs next
SwitchAgent_own_tracker ==
    /\ other_agent.name # "none"
    /\ \E c \in {other_agent.context} :
           /\ pc' = c.pc
           /\ state' = c.state
           /\ agent' = c.agent
           /\ action_history' = c.action_history
           /\ iterations' = c.iterations
           /\ response' = c.response
           /\ loop_detected' = c.loop_detected
           /\ loop_rule' = c.loop_rule
           /\ evicted' = c.evicted
           /\ cycle' = c.cycle
           /\ invocations' = c.invocations
           /\ reason_cycles' = c.reason_cycles
           /\ action_cycles' = c.action_cycles
           /\ last_tool_result' = c.last_tool_result
    /\ interaction_tracker' = InteractionTracker
    /\ other_agent' =
           [name |-> IF other_agent.name = "A" THEN "B" ELSE "A",
            context |-> AgentContext(pc, state, agent, action_history, iterations,
                                     response, loop_detected, loop_rule, evicted,
                                     cycle, invocations, reason_cycles,
                                     action_cycles, last_tool_result)]
    /\ UNCHANGED <<last_click, dispatches, oracle_calls, tracker_call>>

\* the scheduler lets the other agent run: what each instance owns goes with
\* it, the module-level tracker stays
SwitchAgent ==
    /\ other_agent.name # "none"
    /\ \E c \in {other_agent.context} :
           /\ pc' = c.pc
           /\ state' = c.state
           /\ agent' = c.agent
           /\ action_history' = c.action_history
           /\ iterations' = c.iterations
           /\ response' = c.response
           /\ loop_detected' = c.loop_detected
           /\ loop_rule' = c.loop_rule
           /\ evicted' = c.evicted
           /\ cycle' = c.cycle
           /\ invocations' = c.invocations
           /\ reason_cycles' = c.reason_cycles
           /\ action_cycles' = c.action_cycles
           /\ last_tool_result' = c.last_tool_result
    /\ other_agent' =
           [name |-> IF other_agent.name = "A" THEN "B" ELSE "A",
            context |-> AgentContext(pc, state, agent, action_history, iterations,
                                     response, loop_detected, loop_rule, evicted,
                                     cycle, invocations, reason_cycles,
                                     action_cycles, last_tool_result)]
    /\ UNCHANGED <<interaction_tracker, last_click, dispatches, oracle_calls,
                   tracker_call>>

\* the agent that runs
running_agent == IF other_agent.name = "A" THEN "B" ELSE "A"

\* agents A and B are constructed, A with the larger step budget and with or
\* without loop detection, B with loop detection; A is the first to run
InitTwo ==
    /\ InitAgent({MaxStepsBound})
    /\ agent.consecutive_failures = 1
    /\ \E fields \in [max_steps : {MaxStepsBound - 2},
                       consecutive_failures : {1},
                       loop_detection : {TRUE},
                       current_consecutive_failures : {0}] :
           other_agent = ConstructedAgent("B", fields)

\* the oracle of either agent proposes clicks only
ReasonClick == \E l \in Locs : Reason(Action(CLICK_TOOL, l))

\* each agent is given one task
InvokeOnce == invocations = 0 /\ Invoke

\* the UI surface answers every interaction; no handler raises
UIResponsive == {u \in UIBehaviour : \A s \in OrderedStrategies : u[s] # "raise"}

ActionClickResponsive ==
    /\ state.agent_data.name = CLICK_TOOL
    /\ \E ui \in UIResponsive : ActionDispatch(ui)

NextTwo ==
    \/ InvokeOnce
    \/ ReasonClick
    \/ ActionLoopDetected
    \/ ActionClickResponsive
    \/ AnswerClick
    \/ SwitchAgent

SpecTwo == InitTwo /\ [][NextTwo]_vars

(***************************************************************************)
(* A stand-alone LoopDetector()                                            *)
(***************************************************************************)
AddAction(a) ==
    /\ \E r \in {add_action(action_history, a.name, a.params)} :
           /\ action_history' = r.history
           /\ loop_detected' = r.flagged
           /\ loop_rule' = r.rule
           /\ evicted' = r.evicted
    /\ UNCHANGED <<pc, state, agent, interaction_tracker, iterations, response,
                   cycle, last_click, invocations, dispatches, oracle_calls,
                   reason_cycles, action_cycles, last_tool_result, tracker_call, other_agent>>

LDActions == {Action(CLICK_TOOL, p) : p \in 1..LDParams} \cup {Action(KEY_TOOL, 0)}

DetectorAdd == \E a \in LDActions : AddAction(a)

InitLD ==
    /\ InitWith({MaxStepsBound})
    /\ agent.consecutive_failures = 1
    /\ agent.loop_detection

NextLD == DetectorAdd

SpecLD == InitLD /\ [][NextLD]_vars

\* the same detector fed with a wider choice of actions, for a few calls
LDActionsWide ==
    {Action(CLICK_TOOL, p) : p \in 1..(LDParams + 1)} \cup {Action(KEY_TOOL, 0)}

DetectorAddFew ==
    /\ Len(action_history) < MaxAdds
    /\ \E a \in LDActionsWide : AddAction(a)

NextLDWide == DetectorAddFew

SpecLDWide == InitLD /\ [][NextLDWide]_vars

(***************************************************************************)
(* A stand-alone InteractionTracker()                                      *)
(***************************************************************************)
\* record_attempt calls made so far
total_attempts ==
    LET RECURSIVE sum(_)
        sum(l) == IF l = 0 THEN 0
                  ELSE interaction_tracker.location_attempts[l] + sum(l - 1)
    IN  sum(NumLocs)

TrackerUnchanged ==
    UNCHANGED <<pc, state, agent, action_history, iterations, response,
                loop_detected, loop_rule, evicted, cycle, last_click, invocations,
                dispatches, oracle_calls, reason_cycles, action_cycles,
                last_tool_result, other_agent>>

\* tracker.record_attempt(location, strategy, success)
TrackerRecord ==
    /\ total_attempts < MaxRecords
    /\ \E location \in Locs, strategy \in Range(all_strategies), success \in BOOLEAN :
           /\ interaction_tracker' =
                  record_attempt(interaction_tracker, location, strategy, success)
           /\ tracker_call' = TrackerCall("record_attempt", location, strategy,
                                          success, FALSE, <<>>)
    /\ TrackerUnchanged

\* tracker.should_try_alternative(location): reads, changes nothing
TrackerShouldTry ==
    /\ \E location \in Locs :
           tracker_call' = TrackerCall("should_try_alternative", location, NoStrategy,
                                       FALSE,
                                       should_try_alternative(interaction_tracker, location),
                                       <<>>)
    /\ UNCHANGED interaction_tracker
    /\ TrackerUnchanged

\* tracker.get_available_strategies(location): reads, changes nothing
TrackerAvailable ==
    /\ \E location \in Locs :
           tracker_call' = TrackerCall("get_available_strategies", location, NoStrategy,
                                       FALSE, FALSE,
                                       get_available_strategies(interaction_tracker, location))
    /\ UNCHANGED interaction_tracker
    /\ TrackerUnchanged

InitIT ==
    /\ InitWith({MaxStepsBound})
    /\ agent.consecutive_failures = 1
    /\ agent.loop_detection

NextIT ==
    \/ TrackerRecord
    \/ TrackerShouldTry
    \/ TrackerAvailable

SpecIT == InitIT /\ [][NextIT]_vars

(***************************************************************************)
(* Properties                                                              *)
(***************************************************************************)
\* the n most recent entries of h exist and are structurally identical
LastEntriesEqual(h, n) ==
    /\ Len(h) >= n
    /\ \A i \in (Len(h) - n + 1)..Len(h) : h[i] = h[Len(h)]

Running == pc \in {"reason", "action", "answer"}

\* C1: on a default LoopDetector, add_action returns True by the exact-repeat
\* rule only when the 3 most recent entries, the new one included, are
\* identical; the same action added to an empty history returns False on the
\* 1st and 2nd call and True on the 3rd.
C1_ExactRepeatOnThird ==
    /\ loop_rule = "exact" => LastEntriesEqual(action_history, 3)
    /\ \A k \in 1..3 :
          (Len(action_history) = k /\ LastEntriesEqual(action_history, k))
              => (loop_detected <=> k = 3)

C1_Witness ==
    /\ Len(action_history) = 3
    /\ LastEntriesEqual(action_history, 3)
    /\ loop_detected
    /\ loop_rule = "exact"

\* C2: on a default LoopDetector with an empty history, the sequence A, B, A, B
\* with A different from B makes the 4th add_action return True.
C2_AlternatingFlaggedOnFourth ==
    ( /\ Len(action_history) = 4
      /\ action_history[1] = action_history[3]
      /\ action_history[2] = action_history[4]
      /\ action_history[1] # action_history[2] )
        => loop_detected

\* C3: an ACTION cycle in which add_action flags a loop dispatches no tool,
\* clears agent_data and sets previous_observation to the loop text with the
\* suggested alternatives; a Click that repeats the two most recent history
\* entries is such a cycle.
C3_FlaggedLoopNotExecuted ==
    [][ /\ (pc = "action" /\ cycle'.node = "action" /\ agent.loop_detection
              /\ loop_detected')
           => /\ dispatches' = dispatches
              /\ interaction_tracker' = interaction_tracker
              /\ last_click' = last_click
              /\ state'.agent_data = NoAction
              /\ state'.previous_observation.marker = "Infinite loop detected"
              /\ state'.previous_observation.guidance = get_suggested_alternatives
        /\ (pc = "action" /\ cycle'.node = "action" /\ agent.loop_detection
              /\ state.agent_data.name = CLICK_TOOL
              /\ LastEntriesEqual(action_history, 2)
              /\ action_history[Len(action_history)]
                    = ActionPattern(state.agent_data.name, state.agent_data.params))
           => /\ loop_detected'
              /\ dispatches' = dispatches
      ]_vars

C3_Witness ==
    /\ cycle.node = "action"
    /\ cycle.flagged
    /\ action_cycles = 3
    /\ dispatches = 2
    /\ Len(action_history) = 3
    /\ LastEntriesEqual(action_history, 3)
    /\ action_history[1].action_name = CLICK_TOOL

\* C4: a click on the multi-strategy path never ends up with no candidate
\* strategy to attempt: when every strategy has failed at the location the
\* request for strategies yields DirectClick alone and the failed set is
\* cleared.
C4_AlwaysACandidate ==
    last_click.path = "multi" => Len(last_click.attempted) >= 1

\* a running Controller can always take a step, and a click execution attempts
\* each strategy at most once
C5_Safety ==
    /\ Running => ENABLED Run
    /\ Len(last_click.attempted) <= 4
    /\ \A i, j \in 1..Len(last_click.attempted) :
          i # j => last_click.attempted[i] # last_click.attempted[j]

\* C5: whatever the oracle and the UI do, every invocation terminates, in
\* ANSWER or in the ceiling error; no reachable state of a running Controller
\* is a deadlock; a click execution attempts each strategy at most once.
C5_Terminates ==
    /\ []C5_Safety
    /\ Running ~> (pc = "end" /\ cycle.node \in {"answer", "recursion_limit"})

C5_Witness ==
    /\ pc = "end"
    /\ cycle.node = "answer"
    /\ last_click.path = "multi"
    /\ Len(last_click.attempted) = 4
    /\ action_cycles >= 2

C7_EndsWithinStepBudget ==
    pc = "end"
        => /\ cycle.node = "answer"
           /\ (cycle.tool # DONE_TOOL => state.steps >= state.max_steps)

\* C8: the run starts in REASON; after a REASON cycle the next node is ACTION
\* iff the proposed action is not the Done Tool and steps, read after the
\* increment, is below max_steps, and ANSWER otherwise; ACTION is followed by
\* REASON and ANSWER by END.
C8_Routing ==
    [][ /\ (cycle'.node = "start" => pc' = "reason")
        /\ (cycle'.node = "reason"
              => /\ pc = "reason"
                 /\ (pc' = "action"
                       <=> (state'.agent_data.name # DONE_TOOL
                              /\ state'.steps < state'.max_steps))
                 /\ pc' \in {"action", "answer"})
        /\ (cycle'.node = "action" => (pc = "action" /\ pc' = "reason"))
        /\ (cycle'.node = "answer" => (pc = "answer" /\ pc' = "end"))
      ]_vars

C8_Witness ==
    /\ cycle.node = "reason"
    /\ pc = "answer"
    /\ state.agent_data.name # DONE_TOOL
    /\ state.steps = state.max_steps
    /\ action_cycles >= 1

\* C9: steps grows by exactly 1 in every REASON cycle and is changed by no
\* other cycle, so steps is its initial value plus the REASON cycles completed.
C9_StepsCountReasonCycles ==
    /\ [] (pc # "idle" => state.steps = initial_steps + reason_cycles)
    /\ [][ /\ (cycle'.node = "reason" => state'.steps = state.steps + 1)
           /\ (cycle'.node \in {"action", "answer", "recursion_limit"}
                 => state'.steps = state.steps)
         ]_vars

C9_Witness ==
    /\ pc = "end"
    /\ cycle.node = "answer"
    /\ reason_cycles = 4
    /\ action_cycles = 3
    /\ state.steps = 5

\* C10: when the oracle proposes the Done Tool in the first REASON cycle the
\* Controller goes to ANSWER and the run ends without any ACTION cycle,
\* whatever max_steps is.
C10_DoneFirstNoAction ==
    /\ (cycle.node = "reason" /\ reason_cycles = 1
          /\ state.agent_data.name = DONE_TOOL)
         => (pc = "answer" /\ action_cycles = 0)
    /\ (pc = "end" /\ reason_cycles = 1 /\ cycle.tool = DONE_TOOL)
         => (cycle.node = "answer" /\ action_cycles = 0)

C10_Witness ==
    /\ pc = "end"
    /\ cycle.node = "answer"
    /\ cycle.tool = DONE_TOOL
    /\ reason_cycles = 1
    /\ action_cycles = 0
    /\ agent.max_steps = MaxStepsBound

\* s is an initial part of t
IsPrefix(s, t) ==
    /\ Len(s) <= Len(t)
    /\ \A i \in 1..Len(s) : s[i] = t[i]

\* this step executes the Click Tool, in the action or in the answer node
ClickExecuted ==
    /\ dispatches' = dispatches + 1
    /\ cycle'.tool = CLICK_TOOL

\* C11: a click execution at a location for which should_try_alternative is
\* true and no strategy is excluded attempts ElementSearch, KeyboardNav,
\* AlternativeCoordinates, DirectClick in that order, records every attempt
\* with its validated outcome, goes on only after a failure, stops at the
\* first validated success and then returns the success text naming that
\* strategy.
C11_FixedOrderFirstSuccess ==
    [][ ( /\ ClickExecuted
          /\ should_try_alternative(interaction_tracker, last_click'.loc)
          /\ interaction_tracker.failed_strategies[last_click'.loc] = <<>> )
        => LET c == last_click'
               n == Len(c.attempted)
           IN  /\ c.path = "multi"
               /\ n >= 1
               /\ IsPrefix(c.attempted,
                           <<ELEMENT_SEARCH, KEYBOARD_NAV,
                             ALTERNATIVE_COORDINATES, DIRECT_CLICK>>)
               /\ Len(c.recorded) >= n
               /\ \A k \in 1..n :
                     c.recorded[k] = Recorded(c.attempted[k], c.outcomes[k] = "ok")
               /\ \A k \in 1..(n - 1) : c.outcomes[k] # "ok"
               /\ c.outcomes[n] = "ok"
                     => /\ c.message = Msg("success_with", c.attempted[n])
                        /\ c.records = n
               /\ c.outcomes[n] # "ok" => n = 4
               /\ interaction_tracker'.location_attempts[c.loc]
                     = interaction_tracker.location_attempts[c.loc] + c.records
      ]_vars

C11_Witness ==
    /\ cycle.node = "action"
    /\ last_click.path = "multi"
    /\ last_click.available = all_strategies
    /\ last_click.attempted = <<ELEMENT_SEARCH, KEYBOARD_NAV, ALTERNATIVE_COORDINATES>>
    /\ last_click.outcomes = <<"fail", "raise", "ok">>
    /\ last_click.message = Msg("success_with", ALTERNATIVE_COORDINATES)

\* C12: a click execution at a location for which should_try_alternative is
\* false attempts DirectClick only and makes exactly one record_attempt call,
\* for DirectClick with the validated outcome, whatever that outcome is.
C12_DirectOnlyOneRecord ==
    [][ ( /\ ClickExecuted
          /\ ~ should_try_alternative(interaction_tracker, last_click'.loc) )
        => LET c == last_click'
           IN  /\ c.path = "direct"
               /\ c.attempted = <<DIRECT_CLICK>>
               /\ c.records = 1
               /\ c.recorded = <<Recorded(DIRECT_CLICK, c.outcomes[1] = "ok")>>
               /\ \A l \in Locs :
                     interaction_tracker'.location_attempts[l]
                        = interaction_tracker.location_attempts[l]
                             + (IF l = c.loc THEN 1 ELSE 0)
               /\ Len(interaction_tracker'.failed_strategies[c.loc])
                     = Len(interaction_tracker.failed_strategies[c.loc])
                          + (IF c.outcomes[1] = "ok" THEN 0 ELSE 1)
      ]_vars

C12_Witness ==
    /\ cycle.node = "action"
    /\ last_click.path = "direct"
    /\ last_click.outcomes = <<"fail">>
    /\ last_click.recorded = <<Recorded(DIRECT_CLICK, FALSE)>>
    /\ interaction_tracker.location_attempts[last_click.loc] = 2
    /\ interaction_tracker.consecutive_failures = 1

\* C13: when a location has failed twice on the DirectClick-only path, the
\* next click execution there takes the multi-strategy path: the strategies
\* handed to it are those get_available_strategies leaves, and it attempts
\* the alternatives, ElementSearch first, and not DirectClick.
C13_ThirdClickMultiStrategy ==
    [][ ( /\ ClickExecuted
          /\ interaction_tracker.location_attempts[last_click'.loc] = 2
          /\ interaction_tracker.failed_strategies[last_click'.loc]
                = <<DIRECT_CLICK, DIRECT_CLICK>> )
        => LET c == last_click'
           IN  /\ c.path = "multi"
               /\ c.available
                    = <<KEYBOARD_NAV, TEXT_BASED, ELEMENT_SEARCH, ALTERNATIVE_COORDINATES>>
               /\ Len(c.attempted) >= 1
               /\ c.attempted[1] = ELEMENT_SEARCH
               /\ DIRECT_CLICK \notin Range(c.attempted)
      ]_vars

C13_Witness ==
    /\ cycle.node = "action"
    /\ last_click.path = "multi"
    /\ last_click.attempted = <<ELEMENT_SEARCH, KEYBOARD_NAV>>
    /\ last_click.message = Msg("success_with", KEYBOARD_NAV)
    /\ interaction_tracker.location_attempts[last_click.loc] = 4
    /\ interaction_tracker.failed_strategies[last_click.loc]
          = <<DIRECT_CLICK, DIRECT_CLICK, ELEMENT_SEARCH>>

\* C14: should_try_alternative(loc) returns True exactly when
\* location_attempts[loc] >= 2 or consecutive_failures >= 3 and leaves the
\* tracker as it was; so it is True after two failed attempts at loc, and
\* after three consecutive failures it is True for every location, one without
\* any recorded attempt included.
C14_ShouldTryAlternative ==
    /\ [] ( tracker_call.op = "should_try_alternative"
              => LET l == tracker_call.location
                     t == interaction_tracker
                 IN  /\ tracker_call.returned
                          <=> (t.location_attempts[l] >= 2 \/ t.consecutive_failures >= 3)
                     /\ Len(t.failed_strategies[l]) >= 2 => tracker_call.returned
                     /\ t.consecutive_failures >= 3 => tracker_call.returned )
    /\ [][ tracker_call'.op = "should_try_alternative"
              => interaction_tracker' = interaction_tracker ]_vars

C14_Witness ==
    /\ tracker_call.op = "should_try_alternative"
    /\ tracker_call.returned
    /\ interaction_tracker.location_attempts[tracker_call.location] = 0
    /\ interaction_tracker.consecutive_failures = 3

\* C15: a record_attempt with success=True sets consecutive_failures to 0,
\* one with success=False adds exactly 1 to it, at whatever location and with
\* whatever strategy; no other call on the tracker changes it.
C15_ConsecutiveFailures ==
    [][ /\ total_attempts' # total_attempts
           => /\ tracker_call'.op = "record_attempt"
              /\ tracker_call'.success
                    => interaction_tracker'.consecutive_failures = 0
              /\ ~ tracker_call'.success
                    => interaction_tracker'.consecutive_failures
                          = interaction_tracker.consecutive_failures + 1
        /\ total_attempts' = total_attempts
           => interaction_tracker'.consecutive_failures
                 = interaction_tracker.consecutive_failures
      ]_vars

C15_Witness ==
    /\ tracker_call.op = "record_attempt"
    /\ tracker_call.success
    /\ tracker_call.strategy = KEYBOARD_NAV
    /\ interaction_tracker.consecutive_failures = 0
    /\ total_attempts = 3
    /\ \E l \in Locs :
          /\ l # tracker_call.location
          /\ Len(interaction_tracker.failed_strategies[l]) = 2

\* every attempt recorded at l is a failure of DirectClick, and there are at
\* least n of them
DirectAloneFailed(l, n) ==
    /\ interaction_tracker.location_attempts[l] >= n
    /\ interaction_tracker.location_attempts[l]
          = Len(interaction_tracker.failed_strategies[l])
    /\ Range(interaction_tracker.failed_strategies[l]) = {DIRECT_CLICK}

\* get_available_strategies(loc) returned the strategies without a recorded
\* failure at loc, whatever is recorded elsewhere; after at least n failures
\* of DirectClick alone at loc the tracker asks for alternatives and offers
\* more than one strategy
AvailableAtLocation(n) ==
    LET l == tracker_call.location
    IN  /\ tracker_call.op = "get_available_strategies"
           => /\ \A s \in Range(all_strategies) :
                    s \in Range(tracker_call.strategies)
                       <=> s \notin Range(interaction_tracker.failed_strategies[l])
              /\ DirectAloneFailed(l, n) => Len(tracker_call.strategies) > 1
        /\ tracker_call.op = "should_try_alternative"
           => (DirectAloneFailed(l, n) => tracker_call.returned)

\* C16: get_available_strategies(loc) returns exactly the strategies with no
\* recorded failure at that location, failures at other locations removing
\* nothing; after any number of failures of DirectClick alone at loc,
\* should_try_alternative(loc) is true and more than one strategy is available.
C16_AvailableAfterAnyFailures == AvailableAtLocation(1)

\* C16, amended: as C16, for two or more failures of DirectClick alone at loc.
C16_AvailableAfterTwoFailures == AvailableAtLocation(2)

C16_Witness ==
    /\ tracker_call.op = "get_available_strategies"
    /\ DirectAloneFailed(tracker_call.location, 2)
    /\ Len(tracker_call.strategies) = 4
    /\ KEYBOARD_NAV \in Range(tracker_call.strategies)
    /\ \E l \in Locs :
          /\ l # tracker_call.location
          /\ interaction_tracker.failed_strategies[l] = <<KEYBOARD_NAV>>

\* C17: a multi-strategy click execution in which every attempted strategy
\* fails records one final failure for the location and returns the 'all
\* strategies exhausted' text; no other click execution returns that text.
C17_ExhaustionReport ==
    [][ ClickExecuted
        => LET c == last_click'
               n == Len(c.attempted)
               loc == c.loc
               all_failed == \A k \in 1..n : c.outcomes[k] # "ok"
           IN  /\ (c.path = "multi" /\ all_failed)
                  => /\ c.message = Msg("all_strategies_exhausted", NoStrategy)
                     /\ last_tool_result'.content = c.message
                     /\ c.records = n + 1
                     /\ c.recorded[n + 1] = Recorded(DIRECT_CLICK, FALSE)
                     /\ interaction_tracker'.location_attempts[loc]
                           = interaction_tracker.location_attempts[loc] + n + 1
                     /\ interaction_tracker'.failed_strategies[loc]
                           = interaction_tracker.failed_strategies[loc]
                                \o c.attempted \o <<DIRECT_CLICK>>
               /\ c.message.kind = "all_strategies_exhausted"
                  => (c.path = "multi" /\ all_failed)
      ]_vars

C17_Witness ==
    /\ cycle.node = "action"
    /\ last_click.path = "multi"
    /\ last_click.attempted
          = <<ELEMENT_SEARCH, KEYBOARD_NAV, ALTERNATIVE_COORDINATES, DIRECT_CLICK>>
    /\ last_click.outcomes = <<"fail", "fail", "fail", "fail">>
    /\ last_click.message = Msg("all_strategies_exhausted", NoStrategy)
    /\ last_click.records = 5

\* the order of preference of the multi-strategy path, and a strategy's place
\* in it
PreferenceOrder ==
    <<ELEMENT_SEARCH, KEYBOARD_NAV, ALTERNATIVE_COORDINATES, DIRECT_CLICK>>
Place(strategy) == CHOOSE i \in 1..Len(PreferenceOrder) : PreferenceOrder[i] = strategy

\* C18: an exception raised inside a strategy's interaction does not escape
\* the click tool, which returns its text: the strategy gets a failed result,
\* the failure is recorded for the strategy and the location, and the
\* multi-strategy path goes on with the next strategy of the order that is
\* available, or with the exhaustion report when there is none.
C18_StrategyExceptionRecovered ==
    [][ ClickExecuted
        => LET c == last_click'
               n == Len(c.attempted)
           IN  /\ last_tool_result'.is_success
               /\ last_tool_result'.content = c.message
               /\ \A k \in 1..n :
                     c.outcomes[k] = "raise"
                     => /\ c.recorded[k] = Recorded(c.attempted[k], FALSE)
                        /\ c.attempted[k]
                              \in Range(interaction_tracker'.failed_strategies[c.loc])
                        /\ c.path = "direct"
                              => c.message = Msg("initial_click_failed", NoStrategy)
                        /\ (c.path = "multi" /\ k < n)
                              => /\ Place(c.attempted[k + 1]) > Place(c.attempted[k])
                                 /\ \A i \in (Place(c.attempted[k]) + 1)
                                               ..(Place(c.attempted[k + 1]) - 1) :
                                       PreferenceOrder[i] \notin Range(c.available)
                        /\ (c.path = "multi" /\ k = n)
                              => /\ c.message
                                      = Msg("all_strategies_exhausted", NoStrategy)
                                 /\ \A i \in (Place(c.attempted[k]) + 1)
                                               ..Len(PreferenceOrder) :
                                       PreferenceOrder[i] \notin Range(c.available)
      ]_vars

C18_Witness ==
    /\ cycle.node = "action"
    /\ last_click.path = "multi"
    /\ last_click.attempted = <<ELEMENT_SEARCH, KEYBOARD_NAV, ALTERNATIVE_COORDINATES>>
    /\ last_click.outcomes = <<"raise", "raise", "raise">>
    /\ last_click.message = Msg("all_strategies_exhausted", NoStrategy)
    /\ interaction_tracker.consecutive_failures >= 4

\* this step is an action cycle that executes its tool through the registry
ActionDispatched ==
    /\ cycle'.node = "action"
    /\ dispatches' = dispatches + 1

ClickFailed(c) ==
    c.message.kind \in {"initial_click_failed", "all_strategies_exhausted"}

\* C21: a Click action whose interaction fails in the click tool is a failed
\* action for the Controller: its consecutive-failure count grows by one and
\* the text handed to the oracle is the result's error, not its content.
C21_FailedClickCountsAsFailure ==
    [][ ( /\ ActionDispatched
          /\ cycle'.tool = CLICK_TOOL
          /\ ClickFailed(last_click') )
        => /\ ~ last_tool_result'.is_success
           /\ agent'.current_consecutive_failures
                 = agent.current_consecutive_failures + 1
           /\ state'.previous_observation.text = last_tool_result'.error
           /\ last_tool_result'.error = last_click'.message
      ]_vars

C23_OutcomeSurfacedOnce ==
    /\ [][ ActionDispatched
           => state'.previous_observation.text
                 = IF last_tool_result'.is_success
                   THEN last_tool_result'.content
                   ELSE last_tool_result'.error ]_vars
    /\ [] ( (pc = "end" /\ cycle.node = "answer")
              => /\ last_tool_result.is_success
                       => /\ response.content = last_tool_result.content
                          /\ response.error = ""
                 /\ ~ last_tool_result.is_success
                       => response.error # ""
                 /\ ~ (response.content # NoneMsg /\ response.error # "") )

\* C24: the LoopDetector history never holds more than 10 entries; an add to
\* a full history drops the oldest entry and keeps the others in their order,
\* an add to a history that is not full drops nothing.
C24_BoundedFifoHistory ==
    /\ [] (Len(action_history) <= 10)
    /\ [][ LET h == action_history
               h1 == action_history'
           IN  /\ Len(h) = 10
                  => /\ evicted'
                     /\ Len(h1) = 10
                     /\ \A i \in 1..9 : h1[i] = h[i + 1]
               /\ Len(h) < 10
                  => /\ ~ evicted'
                     /\ Len(h1) = Len(h) + 1
                     /\ \A i \in 1..Len(h) : h1[i] = h[i]
         ]_vars

C24_Witness ==
    /\ evicted
    /\ Len(action_history) = 10
    /\ action_history[1] # action_history[2]
    /\ action_history[9] # action_history[10]

\* no two entries of h are structurally identical
PairwiseDistinct(h) ==
    \A i, j \in 1..Len(h) : i # j => h[i] # h[j]

\* C25: while the actions added to an empty LoopDetector are pairwise
\* distinct, 4 of them included, no add_action returns True; add_action
\* returns True only if two of the 3 most recent entries are identical.
C25_DistinctNeverFlagged ==
    /\ (Len(action_history) <= 4 /\ PairwiseDistinct(action_history))
          => ~ loop_detected
    /\ loop_detected
          => /\ Len(action_history) >= 3
             /\ ~ PairwiseDistinct(LastN(action_history, 3))

C25_Witness ==
    /\ Len(action_history) = 4
    /\ PairwiseDistinct(action_history)
    /\ ~ loop_detected

\* C26: a flagged add_action updates the history as any other: the new
\* action is appended, the oldest entry dropped if the history was full, and
\* nothing else removed; the entry takes part in the next check, so the same
\* action added once more is flagged again.
C26_FlagKeepsHistory ==
    [][ LET h == action_history
            h1 == action_history'
        IN  /\ loop_detected'
               => /\ Len(h1) = (IF Len(h) = 10 THEN 10 ELSE Len(h) + 1)
                  /\ IsPrefix(IF Len(h) = 10 THEN Tail(h) ELSE h, h1)
            /\ (loop_detected /\ h1[Len(h1)] = h[Len(h)])
               => loop_detected'
      ]_vars

C26_Witness ==
    /\ loop_detected
    /\ Len(action_history) = 5
    /\ LastEntriesEqual(action_history, 4)
    /\ action_history[1] # action_history[2]

\* C27: the ACTION cycle in which the detector flags a loop changes neither
\* the Controller's consecutive-failure count, nor the steps counter, nor any
\* part of the InteractionTracker.
C27_FlaggedLoopChangesNoCounter ==
    [][ ( /\ pc = "action"
          /\ cycle'.node = "action"
          /\ agent.loop_detection
          /\ \/ loop_detected'
             \/ /\ LastEntriesEqual(action_history, 2)
                /\ action_history[Len(action_history)]
                      = ActionPattern(state.agent_data.name, state.agent_data.params) )
        => /\ agent'.current_consecutive_failures = agent.current_consecutive_failures
           /\ state'.steps = state.steps
           /\ interaction_tracker'.location_attempts
                 = interaction_tracker.location_attempts
           /\ interaction_tracker'.failed_strategies
                 = interaction_tracker.failed_strategies
           /\ interaction_tracker'.consecutive_failures
                 = interaction_tracker.consecutive_failures
      ]_vars

C27_Witness ==
    /\ cycle.node = "action"
    /\ cycle.flagged
    /\ agent.current_consecutive_failures = 2
    /\ state.steps = 4
    /\ Len(action_history) = 3
    /\ action_history[3].action_name = KEY_TOOL

\* C28: location_attempts[loc] never decreases: a click execution adds to it,
\* at its own location only, exactly the number of record_attempt calls it
\* makes, successful or not, and no other step, the start of a new invocation
\* included, changes it.
C28_LocationAttemptsMonotone ==
    [][ \A l \in Locs :
           LET before == interaction_tracker.location_attempts[l]
               after == interaction_tracker'.location_attempts[l]
           IN  /\ after >= before
               /\ ClickExecuted
                  => after = before + (IF l = last_click'.loc
                                       THEN Len(last_click'.recorded)
                                       ELSE 0)
               /\ ~ ClickExecuted => after = before
      ]_vars

C28_Witness ==
    /\ invocations = 2
    /\ cycle.node = "action"
    /\ last_click.path = "multi"
    /\ last_click.recorded = <<Recorded(ELEMENT_SEARCH, TRUE)>>
    /\ interaction_tracker.location_attempts[last_click.loc] = 3
    /\ interaction_tracker.failed_strategies[last_click.loc] = <<DIRECT_CLICK>>

\* C29: starting a new invocation on the same agent leaves the LoopDetector
\* history and the InteractionTracker as the previous invocation left them,
\* so that the first click of a later task at a location that failed in an
\* earlier task takes the multi-strategy path and joins the earlier actions
\* in the history.
C29_InvocationKeepsDetectorAndTracker ==
    [][ invocations' = invocations + 1
        => /\ action_history' = action_history
           /\ interaction_tracker' = interaction_tracker
      ]_vars

C29_Witness ==
    /\ invocations = 2
    /\ action_cycles = 1
    /\ cycle.node = "action"
    /\ cycle.tool = CLICK_TOOL
    /\ last_click.path = "multi"
    /\ Len(action_history) = 2
    /\ LastEntriesEqual(action_history, 2)
    /\ interaction_tracker.location_attempts[last_click.loc] >= 3

\* C30: a click execution on the multi-strategy path attempts no strategy
\* that was recorded as failed at its location before the call, attempts no
\* strategy twice, and so makes at most four attempts.
C30_NoFailedStrategyRetried ==
    [][ (ClickExecuted /\ last_click'.path = "multi")
        => LET attempted == last_click'.attempted
               failed == interaction_tracker.failed_strategies[last_click'.loc]
           IN  /\ \A i \in 1..Len(attempted) : attempted[i] \notin Range(failed)
               /\ \A i, j \in 1..Len(attempted) :
                      attempted[i] = attempted[j] => i = j
               /\ Len(attempted) <= 4
      ]_vars

C30_Witness ==
    /\ cycle.tool = CLICK_TOOL
    /\ last_click.path = "multi"
    /\ DIRECT_CLICK \notin Range(last_click.available)
    /\ last_click.attempted = <<ELEMENT_SEARCH, KEYBOARD_NAV, ALTERNATIVE_COORDINATES>>
    /\ Len(interaction_tracker.failed_strategies[last_click.loc]) = 5

\* the first invocation of an agent with loop detection, in which every
\* proposal of the oracle so far was the Click at location l and no click
\* has succeeded
OnlyFailingClicksAt(l) ==
    /\ invocations = 1
    /\ agent.loop_detection
    /\ \A i \in 1..Len(action_history) :
           action_history[i] = ActionPattern(CLICK_TOOL, l)
    /\ state.agent_data \in {NoAction, Action(CLICK_TOOL, l)}
    /\ cycle.tool \in {NoTool, CLICK_TOOL}
    /\ last_click.loc \in {0, l}
    /\ interaction_tracker.last_successful_strategy = NoStrategy

C32_FlagPersistsForSameAction ==
    [][ ( /\ pc = "action"
          /\ cycle'.node = "action"
          /\ agent.loop_detection
          /\ loop_detected
          /\ loop_rule = "exact"
          /\ Len(action_history) > 0
          /\ action_history[Len(action_history)]
                = ActionPattern(state.agent_data.name, state.agent_data.params) )
        => /\ loop_detected'
           /\ loop_rule' = "exact"
           /\ cycle'.flagged
           /\ dispatches' = dispatches
           /\ action_history' = deque_append(action_history,
                                             action_history[Len(action_history)])
      ]_vars

C32_Witness ==
    /\ cycle.node = "action"
    /\ cycle.flagged
    /\ loop_rule = "exact"
    /\ action_cycles = 5
    /\ dispatches = 2
    /\ Len(action_history) = 5
    /\ LastEntriesEqual(action_history, 5)

\* C33: TEXT_BASED is never recorded as failed, so get_available_strategies
\* returns it for every location in every reachable state: the list of
\* available strategies is never empty and no click execution takes the
\* reset-to-DirectClick branch, also when the four ordered strategies have
\* all failed at the location.
C33_TextBasedAlwaysAvailable ==
    /\ \A l \in Locs :
          /\ TEXT_BASED \notin Range(interaction_tracker.failed_strategies[l])
          /\ TEXT_BASED \in Range(get_available_strategies(interaction_tracker, l))
    /\ ~ last_click.reset
    /\ last_click.path = "multi" => TEXT_BASED \in Range(last_click.available)

C33_Witness ==
    /\ cycle.tool = CLICK_TOOL
    /\ last_click.path = "multi"
    /\ last_click.available = <<TEXT_BASED>>
    /\ last_click.attempted = <<>>
    /\ OrderedStrategies \subseteq
          Range(interaction_tracker.failed_strategies[last_click.loc])
    /\ get_available_strategies(interaction_tracker, last_click.loc) = <<TEXT_BASED>>

\* C34: an ANSWER cycle reached with a pending action other than the Done
\* Tool, which happens only when steps has reached max_steps, executes that
\* action through the registry and returns its content as the output; a
\* pending Click runs the click tool without a desktop, at the proposed
\* location, and the InteractionTracker records its attempts.
C34_AnswerExecutesPendingAction ==
    [][ ( /\ pc = "answer"
          /\ cycle'.node = "answer"
          /\ state.agent_data.name # DONE_TOOL )
        => /\ state.steps >= state.max_steps
           /\ dispatches' = dispatches + 1
           /\ cycle'.tool = state.agent_data.name
           /\ state'.output = last_tool_result'.content
           /\ response'.content = last_tool_result'.content
           /\ action_history' = action_history
           /\ state.agent_data.name = CLICK_TOOL
              => /\ last_click'.loc = state.agent_data.params
                 /\ last_click'.records >= 1
                 /\ interaction_tracker' # interaction_tracker
                 /\ interaction_tracker'.location_attempts[last_click'.loc]
                       = interaction_tracker.location_attempts[last_click'.loc]
                            + last_click'.records
                 /\ \A i \in 1..Len(last_click'.attempted) :
                        last_click'.outcomes[i] # "ok"
      ]_vars

C34_Witness ==
    /\ pc = "end"
    /\ cycle.node = "answer"
    /\ cycle.tool = CLICK_TOOL
    /\ state.steps = state.max_steps
    /\ last_click.path = "direct"
    /\ response.content = Msg("initial_click_failed", NoStrategy)
    /\ interaction_tracker.location_attempts[last_click.loc] = 2
    /\ action_history = <<ActionPattern(CLICK_TOOL, last_click.loc)>>

\* C35: location_attempts counts successes too: a click executed at a
\* location with two recorded attempts and no failure recorded anywhere takes
\* the multi-strategy path and starts with ElementSearch.
C35_TwoSuccessesTriggerAlternatives ==
    [][ \A l \in Locs :
          ( /\ ClickExecuted
            /\ last_click'.loc = l
            /\ interaction_tracker.location_attempts[l] = 2
            /\ interaction_tracker.consecutive_failures = 0
            /\ \A k \in Locs : interaction_tracker.failed_strategies[k] = <<>> )
          => /\ should_try_alternative(interaction_tracker, l)
             /\ last_click'.path = "multi"
             /\ last_click'.attempted[1] = ELEMENT_SEARCH
      ]_vars

C35_Witness ==
    /\ cycle.tool = CLICK_TOOL
    /\ last_click.path = "multi"
    /\ last_click.recorded = <<Recorded(ELEMENT_SEARCH, TRUE)>>
    /\ interaction_tracker.location_attempts[last_click.loc] = 3
    /\ \A k \in Locs : interaction_tracker.failed_strategies[k] = <<>>
    /\ \A k \in Locs : k # last_click.loc
                          => interaction_tracker.location_attempts[k] = 0

\* C36: a multi-strategy click execution that attempts k strategies, 0 to 4,
\* all of which fail, calls record_attempt k + 1 times: location_attempts of
\* the location and consecutive_failures each grow by k + 1 and the failed
\* strategies of the location gain the attempted ones followed by
\* DirectClick; with k = 0 no UI interaction takes place and the exhaustion
\* message is still returned.
C36_ExhaustionRecordsOneMore ==
    [][ ( /\ ClickExecuted
          /\ last_click'.path = "multi"
          /\ \A i \in 1..Len(last_click'.recorded) : ~ last_click'.recorded[i].success )
        => LET c == last_click'
               k == Len(c.attempted)
               t == interaction_tracker
           IN  /\ k \in 0..4
               /\ Len(c.outcomes) = k
               /\ c.records = k + 1
               /\ Len(c.recorded) = k + 1
               /\ c.recorded[k + 1] = Recorded(DIRECT_CLICK, FALSE)
               /\ interaction_tracker'.location_attempts[c.loc]
                     = t.location_attempts[c.loc] + k + 1
               /\ interaction_tracker'.consecutive_failures
                     = t.consecutive_failures + k + 1
               /\ interaction_tracker'.failed_strategies[c.loc]
                     = t.failed_strategies[c.loc] \o c.attempted \o <<DIRECT_CLICK>>
               /\ c.message.kind = "all_strategies_exhausted"
      ]_vars

C36_Witness ==
    /\ cycle.tool = CLICK_TOOL
    /\ last_click.path = "multi"
    /\ last_click.message.kind = "all_strategies_exhausted"
    /\ last_click.attempted = strategy_order
    /\ last_click.records = 5
    /\ interaction_tracker.location_attempts[last_click.loc] = 7
    /\ interaction_tracker.consecutive_failures = 5
    /\ interaction_tracker.failed_strategies[last_click.loc]
          = strategy_order \o <<DIRECT_CLICK>>

Max(a, b) == IF a >= b THEN a ELSE b

\* C37 as stated: an invocation performs at most max_steps - 1 REASON cycles
\* and at most max_steps - 2 ACTION cycles, and none with max_steps <= 2.
C37_CycleBounds ==
    invocations >= 1
    => /\ reason_cycles <= agent.max_steps - 1
       /\ action_cycles = 0 \/ action_cycles <= agent.max_steps - 2
       /\ agent.max_steps <= 2 => (action_cycles = 0 /\ cycle.node # "action")

\* C37: the budget is tested after the first increment, so an invocation
\* performs one REASON cycle even with max_steps = 1: it performs at most
\* max(1, max_steps - 1) REASON cycles and at most max(0, max_steps - 2)
\* ACTION cycles, and none with max_steps <= 2.
C37_CycleBoundsFromTwo ==
    invocations >= 1
    => /\ reason_cycles <= Max(1, agent.max_steps - 1)
       /\ action_cycles <= Max(0, agent.max_steps - 2)
       /\ state.steps = initial_steps + reason_cycles
       /\ agent.max_steps <= 2 => (action_cycles = 0 /\ cycle.node # "action")
       /\ pc = "end" /\ cycle.node = "answer" => reason_cycles >= 1

C37_Witness ==
    /\ pc = "end"
    /\ agent.max_steps = MaxStepsBound
    /\ reason_cycles = MaxStepsBound - 1
    /\ action_cycles = MaxStepsBound - 2
    /\ cycle.node = "answer"

\* C38: invoke does not reset the Controller's consecutive-failure count: an
\* invocation starts with the count the previous one ended with, and only a
\* dispatch in the ACTION state changes it, so the first failed action of a
\* later task can bring the FAILURE LIMIT REACHED marker.
C38_FailureCountSurvivesInvoke ==
    [][ /\ invocations' = invocations + 1 => agent' = agent
        /\ agent'.current_consecutive_failures # agent.current_consecutive_failures
              => ActionDispatched
      ]_vars

C38_Witness ==
    /\ invocations = 2
    /\ action_cycles = 1
    /\ dispatches = 3
    /\ cycle.node = "action"
    /\ ~ last_tool_result.is_success
    /\ agent.consecutive_failures = 2
    /\ agent.current_consecutive_failures = 2
    /\ state.previous_observation.marker = "FAILURE LIMIT REACHED"

\* C39: two agents of one process share the InteractionTracker and have a
\* LoopDetector each.  When the scheduler passes from one agent to the other
\* the tracker stays and the history changes to the other agent's own, which
\* holds that agent's action cycles only; a click executed while the shared
\* tracker counts three or more consecutive failures takes the multi-strategy
\* path whoever recorded them, and a click that succeeds resets that count
\* for both agents.
C39_SharedTrackerOwnDetector ==
    /\ [][ other_agent'.name # other_agent.name
           => /\ interaction_tracker' = interaction_tracker
              /\ action_history' = other_agent.context.action_history
              /\ other_agent'.context.action_history = action_history
         ]_vars
    /\ [] /\ agent.loop_detection => Len(action_history) = action_cycles
          /\ other_agent.context.agent.loop_detection
                => Len(other_agent.context.action_history)
                      = other_agent.context.action_cycles
    /\ [][ ClickExecuted
           => /\ interaction_tracker.consecutive_failures >= tracker_failures_threshold
                    => last_click'.path = "multi"
              /\ (\E i \in 1..Len(last_click'.recorded) : last_click'.recorded[i].success)
                    => interaction_tracker'.consecutive_failures = 0
         ]_vars

C39_Witness ==
    /\ running_agent = "B"
    /\ cycle.node = "action"
    /\ cycle.tool = CLICK_TOOL
    /\ action_cycles = 1
    /\ action_history = <<ActionPattern(CLICK_TOOL, last_click.loc)>>
    /\ last_click.path = "multi"
    /\ last_click.recorded = <<Recorded(ELEMENT_SEARCH, TRUE)>>
    /\ interaction_tracker.location_attempts[last_click.loc] = 1
    /\ interaction_tracker.consecutive_failures = 0
    /\ other_agent.context.pc = "reason"
    /\ other_agent.context.action_cycles = 3
    /\ \A l \in Locs : l # last_click.loc
          => /\ interaction_tracker.location_attempts[l] = 6
             /\ Len(interaction_tracker.failed_strategies[l]) = 6
====
